---- MODULE Spec2Model ----
(***************************************************************************)
(* Model of the product-link crawler of src/main.py:                       *)
(*   fetch_category_page_content  - headless render with a scroll loop     *)
(*   determine_link_type          - heuristic classifier of one <a>        *)
(*   is_internal_url              - internal-domain filter                 *)
(*   validate_links_with_llm      - one oracle call for one batch          *)
(*   crawl_category_page          - the orchestrating loop                 *)
(*                                                                         *)
(* Strings are sequences of tokens.  A token stands for a fixed run of     *)
(* characters; the vocabulary is chosen so that one token never overlaps   *)
(* the characters of a keyword the code searches for ("product", "item",   *)
(* "YES", "NO", "$", a digit, "add to cart", "/", "//", a scheme).  With   *)
(* that, Python's substring / startswith / endswith tests on characters    *)
(* coincide with the same tests on token sequences.                        *)
(***************************************************************************)
EXTENDS Integers, Sequences, FiniteSets, TLC

VARIABLES
    url,              \* argument of crawl_category_page
    category_url,     \* url with a scheme
    base_netloc,      \* urlparse(category_url).netloc
    visited,          \* set of fetched URLs
    to_visit,         \* queue of [url, depth]
    product_urls,     \* result set
    ambiguous_links,  \* pending list of <<url, context>>
    pc,               \* position in crawl_category_page
    current_url, depth,
    content,          \* value returned by fetch_category_page_content
    a_tags, a_idx,    \* soup.find_all("a", href=True) and the loop index (1-based)
    fpc,              \* position in fetch_category_page_content
    driver,           \* browser session: "none", "open", "quit"
    last_height, scroll_count,
    heights,          \* every scroll height the page reported, in order
    i,                \* offset of the current batch (range(0, len, batch_size))
    batch, response, verdicts,
    opc,              \* position in the batch loop / validate_links_with_llm
    renders,          \* number of calls of fetch_category_page_content
    classified,       \* number of calls of determine_link_type
    oracle_calls,     \* number of calls of groq_client.chat.completions.create
    call_failed,      \* the current oracle call raised
    failed_batches,   \* the oracle calls that raised: [at: batch offset,
                      \* lines: how many lines had arrived before the failure,
                      \* yes: whether one of them held a "YES"]
    added,            \* positions of ambiguous_links whose link line 245 added
    submitted,        \* the batches handed to validate_links_with_llm, in order
    answers,          \* the verdict lists it returned, in order
    cl_anchor, cl_out, \* input and output of the classifier run on its own
    category_urls,    \* streamlit_app: the seeds of one run
    app_i,            \* streamlit_app: i of enumerate(category_urls), 0-based
    results,          \* streamlit_app: the results dict, as a set of [url, links]
    app_pc,           \* streamlit_app: position in the loop of lines 279-283
    crawl_log,        \* streamlit_app: what each finished crawl returned, in order
    th                \* the crawls run in threads, one record of locals each

crawl_vars == <<url, category_url, base_netloc, visited, to_visit, product_urls,
                ambiguous_links, pc, current_url, depth, content, a_tags, a_idx>>
fetch_vars == <<fpc, driver, last_height, scroll_count, heights>>
oracle_vars == <<i, batch, response, verdicts, opc, call_failed>>
hist_vars == <<renders, classified, oracle_calls, failed_batches, added,
               submitted, answers>>
cl_vars == <<cl_anchor, cl_out>>
app_vars == <<category_urls, app_i, results, app_pc, crawl_log>>
ext_vars == <<app_vars, th>>
vars == <<crawl_vars, fetch_vars, oracle_vars, hist_vars, cl_vars, ext_vars>>

----------------------------------------------------------------------------
(* Bounds of the model *)

\* longest page, in anchors, among the pages built from the catalogue
MaxAnchors == 2
\* most lines one oracle response holds
MaxLines == 3

----------------------------------------------------------------------------
(* Strings as token sequences *)

Min(a, b) == IF a < b THEN a ELSE b

\* Python: sub in s
Contains(sub, s) ==
    \E k \in 1..(Len(s) - Len(sub) + 1) : SubSeq(s, k, k + Len(sub) - 1) = sub

\* Python: s.endswith(suf)
EndsWith(s, suf) ==
    /\ Len(suf) <= Len(s)
    /\ SubSeq(s, Len(s) - Len(suf) + 1, Len(s)) = suf

\* Python: s.strip() (the only whitespace token of the vocabulary is " ")
RECURSIVE lstrip(_)
lstrip(s) == IF s # <<>> /\ Head(s) = " " THEN lstrip(Tail(s)) ELSE s
RECURSIVE rstrip(_)
rstrip(s) ==
    IF s # <<>> /\ s[Len(s)] = " " THEN rstrip(SubSeq(s, 1, Len(s) - 1)) ELSE s
strip(s) == rstrip(lstrip(s))

\* Python: s.lower() and s.upper(), token by token
LowerTok(t) ==
    CASE t = "Add to Cart" -> "add to cart"
      [] t = "ADD TO CART" -> "add to cart"
      [] t = "YES" -> "yes"
      [] t = "NO" -> "no"
      [] OTHER -> t
UpperTok(t) ==
    CASE t = "yes" -> "YES"
      [] t = "no" -> "NO"
      [] t = "maybe" -> "MAYBE"
      [] OTHER -> t
lower(s) == [k \in 1..Len(s) |-> LowerTok(s[k])]
upper(s) == [k \in 1..Len(s) |-> UpperTok(s[k])]

Digits == {"1", "5", "9"}

\* re.search(r"\$\d+", s)
price_pattern(s) == \E k \in 1..(Len(s) - 1) : s[k] = "$" /\ s[k + 1] \in Digits

----------------------------------------------------------------------------
(* URLs: urlparse and urljoin of urllib.parse, on token sequences *)

Schemes == {"http:", "https:", "mailto:"}
\* urllib.parse.uses_relative / uses_netloc, restricted to Schemes
uses_relative == {"http:", "https:"}
\* tokens whose characters start with "http"
HttpPrefixed == {"http:", "https:"}

url_scheme(u) == IF u # <<>> /\ u[1] \in Schemes THEN u[1] ELSE ""
after_scheme(u) == IF u # <<>> /\ u[1] \in Schemes THEN Tail(u) ELSE u

\* the tokens of s before the first "/" token
RECURSIVE until_slash(_)
until_slash(s) ==
    IF s = <<>> \/ Head(s) = "/" THEN <<>> ELSE <<Head(s)>> \o until_slash(Tail(s))

\* urlparse(u).netloc: what follows "//" up to the next "/"
netloc(u) ==
    LET r == after_scheme(u)
    IN IF r # <<>> /\ r[1] = "//" THEN until_slash(Tail(r)) ELSE <<>>

\* urlparse(u).path
url_path(u) ==
    LET r == after_scheme(u)
    IN IF r # <<>> /\ r[1] = "//"
       THEN SubSeq(r, 2 + Len(until_slash(Tail(r))), Len(r))
       ELSE r

\* the directory part of a path: up to and including its last "/"
RECURSIVE path_dir(_)
path_dir(p) ==
    IF p = <<>> THEN <<"/">>
    ELSE IF p[Len(p)] = "/" THEN p
    ELSE path_dir(SubSeq(p, 1, Len(p) - 1))

\* urljoin(base, u) for an http(s) base (no dot segments in the vocabulary)
urljoin(base, u) ==
    IF u = <<>> THEN base
    ELSE IF url_scheme(u) # "" /\ (url_scheme(u) # url_scheme(base)
                                   \/ url_scheme(u) \notin uses_relative)
    THEN u
    ELSE IF netloc(u) # <<>> THEN <<url_scheme(base)>> \o after_scheme(u)
    ELSE LET p == url_path(u)
             head == <<url_scheme(base), "//">> \o netloc(base)
         IN IF p = <<>> THEN head \o url_path(base)
            ELSE IF p[1] = "/" THEN head \o p
            ELSE head \o path_dir(url_path(base)) \o p

\* is_internal_url(url, base_netloc)
is_internal_url(u, base) ==
    \/ netloc(u) = <<>>
    \/ netloc(u) = base
    \/ EndsWith(netloc(u), base)

----------------------------------------------------------------------------
(* determine_link_type *)

product_keywords == <<"product", "item">>

\* " ".join(parent["class"])
RECURSIVE join_space(_)
join_space(parts) ==
    IF parts = <<>> THEN <<>>
    ELSE IF Len(parts) = 1 THEN parts[1]
    ELSE parts[1] \o <<" ">> \o join_space(Tail(parts))

\* parent.get_text(separator=" ", strip=True): the stripped, non-empty text
\* nodes of the parent joined by " "; the parent holds the anchor's text node
\* and one sibling text node after it
parent_get_text(a) ==
    LET nodes == <<strip(a.text), strip(a.sibling)>>
    IN join_space(SelectSeq(nodes, LAMBDA n : n # <<>>))

cart_or_price(s) == price_pattern(s) \/ Contains(<<"add to cart">>, lower(s))

\* lines 81-84: re.search(rf"/{keyword}/", href) for some keyword
path_signal(a) ==
    \E k \in 1..Len(product_keywords) :
        Contains(<<"/", product_keywords[k], "/">>, a.href)

\* lines 86-91: substring tests on the joined class list
class_signal(a) ==
    /\ a.has_class
    /\ LET parent_classes == join_space(a.classes)
       IN \/ Contains(<<"product", "-card">>, parent_classes)
          \/ Contains(<<"product">>, parent_classes)
          \/ Contains(<<"item">>, parent_classes)

\* lines 93-96
anchor_text_signal(a) == cart_or_price(strip(a.text))

\* lines 98-101
parent_text_signal(a) == cart_or_price(parent_get_text(a))

\* any(kw in href for kw in product_keywords)
href_keyword(a) ==
    \E k \in 1..Len(product_keywords) : Contains(<<product_keywords[k]>>, a.href)

\* faulty variant: the keyword test comes first and a keyword in the href is Ambiguous
\* whatever the strong signals say
determine_link_type_kwfirst(a) ==
    IF a.href = <<>> THEN [direct |-> FALSE, ambiguous |-> FALSE, context |-> <<>>]
    ELSE LET amb == href_keyword(a)
             direct_product ==
                 ~amb /\ (path_signal(a) \/ class_signal(a) \/ anchor_text_signal(a)
                            \/ parent_text_signal(a))
         IN [direct |-> direct_product, ambiguous |-> amb,
             context |-> parent_get_text(a)]

\* determine_link_type(a_tag) -> (direct_product, ambiguous, context_snippet).
\* The [:200] of the context leaves the texts of the model, all shorter than
\* 200 characters, unchanged.
determine_link_type(a) ==
    IF a.href = <<>> THEN [direct |-> FALSE, ambiguous |-> FALSE, context |-> <<>>]
    ELSE LET direct_product ==
                 \/ path_signal(a)
                 \/ class_signal(a)
                 \/ anchor_text_signal(a)
                 \/ parent_text_signal(a)
         IN [direct |-> direct_product,
             ambiguous |-> ~direct_product /\ href_keyword(a),
             context |-> parent_get_text(a)]

----------------------------------------------------------------------------
(* Inputs: seeds, anchors, pages, oracle response lines *)

\* "example.com/sale" (no scheme) and "http://shop.example.com/sale"
Seeds ==
    { <<"example.com", "/", "sale">>,
      <<"http:", "//", "shop", ".", "example.com", "/", "sale">> }

Anchor(href, text, has_class, classes, sibling) ==
    [href |-> href, text |-> text, has_class |-> has_class,
     classes |-> classes, sibling |-> sibling]

\* <li><a href="/product/1">Shoe</a></li>
A_product == Anchor(<<"/", "product", "/", "1">>, <<"Shoe">>, FALSE, <<>>, <<>>)
\* <li><a href="/about-us">About</a></li>
A_about == Anchor(<<"/", "about-us">>, <<"About">>, FALSE, <<>>, <<>>)
\* <li><a href="/deal-item-5">Deal</a></li>
A_ambig == Anchor(<<"/", "deal-", "item", "-5">>, <<"Deal">>, FALSE, <<>>, <<>>)
\* <li><a href="/deal-item-5">Add to Cart</a></li>: the same URL, with a cart phrase
A_ambig_cart ==
    Anchor(<<"/", "deal-", "item", "-5">>, <<"Add to Cart">>, FALSE, <<>>, <<>>)
\* <a href="http://other.org/product/1">
A_external ==
    Anchor(<<"http:", "//", "other.org", "/", "product", "/", "1">>, <<"Shoe">>,
           FALSE, <<>>, <<>>)
\* <a href="http://evilexample.com/item/9">: host ends with the characters of
\* "example.com" without being a subdomain of it
A_lookalike ==
    Anchor(<<"http:", "//", "evil", "example.com", "/", "item", "/", "9">>,
           <<"Shoe">>, FALSE, <<>>, <<>>)
\* <div class="product-card"><a href="mailto:sales@example.com">Ask</a></div>
A_mailto ==
    Anchor(<<"mailto:", "sales@example.com">>, <<"Ask">>, TRUE,
           << <<"product", "-card">> >>, <<>>)
\* <a href="http://shop.example.com/xyz-item-2">
A_sub ==
    Anchor(<<"http:", "//", "shop", ".", "example.com", "/", "xyz-", "item", "-2">>,
           <<"Deal">>, FALSE, <<>>, <<>>)
\* <a href="">$5</a>
A_empty == Anchor(<<>>, <<"$", "5">>, FALSE, <<>>, <<>>)

Catalogue ==
    {A_product, A_about, A_ambig, A_ambig_cart, A_external, A_lookalike,
     A_mailto, A_sub, A_empty}

\* a page of eleven ambiguous anchors: two batches
LongPage == [k \in 1..11 |-> IF k = 11 THEN A_sub ELSE A_ambig]

\* a page of ten ambiguous anchors: one full batch and nothing after it
FullPage == [k \in 1..10 |-> A_ambig]

\* the <a href> elements of a rendered page, in document order
AnchorLists ==
    UNION {[1..n -> Catalogue] : n \in 0..MaxAnchors} \cup {LongPage, FullPage}

\* a non-empty page_source / the "" of a failed fetch
Pages == {[empty |-> FALSE, anchors |-> l] : l \in AnchorLists}
EmptyContent == [empty |-> TRUE, anchors |-> <<>>]

\* the pages of a run over several seeds: a product link and an ambiguous
\* link; an ambiguous link alone
AppPages ==
    {[empty |-> FALSE, anchors |-> l] : l \in {<<A_product, A_ambig>>, <<A_ambig>>}}

\* what a render may return: any page when one seed is crawled on its own, one
\* of the pages above when the crawl is one of a run over several seeds
RenderablePages == IF app_pc = "idle" THEN Pages ELSE AppPages

\* lines of an oracle response: "YES", "no", "maybe", "no YES"
Lines == { <<"YES">>, <<"no">>, <<"maybe">>, <<"no", " ", "YES">> }

NoAnchor == Anchor(<<>>, <<>>, FALSE, <<>>, <<>>)
NoOut == [direct |-> FALSE, ambiguous |-> FALSE, context |-> <<>>]

----------------------------------------------------------------------------
(* Initial state *)

FetchIdle ==
    /\ fpc = "idle"
    /\ last_height = 0
    /\ scroll_count = 0
    /\ heights = <<>>

OracleIdle ==
    /\ i = 0
    /\ batch = <<>>
    /\ response = <<>>
    /\ verdicts = <<>>
    /\ opc = "idle"
    /\ call_failed = FALSE

CrawlIdle ==
    /\ category_url = <<>>
    /\ base_netloc = <<>>
    /\ visited = {}
    /\ to_visit = <<>>
    /\ product_urls = {}
    /\ ambiguous_links = <<>>
    /\ current_url = <<>>
    /\ depth = 0
    /\ content = EmptyContent
    /\ a_tags = <<>>
    /\ a_idx = 1
    /\ driver = "none"
    /\ renders = 0
    /\ classified = 0
    /\ oracle_calls = 0
    /\ failed_batches = {}
    /\ added = {}
    /\ submitted = <<>>
    /\ answers = <<>>
    /\ FetchIdle
    /\ OracleIdle

\* streamlit_app is not running
AppIdle ==
    /\ category_urls = <<>>
    /\ app_i = 0
    /\ results = {}
    /\ app_pc = "idle"
    /\ crawl_log = <<>>

\* no crawl runs in a thread
ThreadsIdle == th = <<>>

Init ==
    /\ url \in Seeds
    /\ pc = "start"
    /\ CrawlIdle
    /\ cl_anchor = NoAnchor
    /\ cl_out = NoOut
    /\ AppIdle
    /\ ThreadsIdle

----------------------------------------------------------------------------
(* crawl_category_page, lines 186-236 *)

\* faulty variant: links of the page are followed one level deep
max_depth_one == 0 + 1

\* line 200
max_depth == 0

\* lines 189-203
CrawlBegin ==
    /\ pc = "start"
    /\ LET cu == IF url # <<>> /\ url[1] \in HttpPrefixed
                 THEN url ELSE <<"http:", "//">> \o url
       IN /\ category_url' = cu
          /\ base_netloc' = netloc(cu)
          /\ to_visit' = <<[url |-> cu, depth |-> 0]>>
    /\ visited' = {}
    /\ product_urls' = {}
    /\ ambiguous_links' = <<>>
    /\ pc' = "while"
    /\ UNCHANGED <<url, current_url, depth, content, a_tags, a_idx>>
    /\ UNCHANGED <<fetch_vars, oracle_vars, hist_vars, cl_vars, ext_vars>>

\* lines 205-212: pop the queue; skip, or call fetch_category_page_content
WhileNext ==
    /\ pc = "while"
    /\ to_visit # <<>>
    /\ current_url' = Head(to_visit).url
    /\ depth' = Head(to_visit).depth
    /\ to_visit' = Tail(to_visit)
    /\ IF Head(to_visit).url \in visited \/ Head(to_visit).depth > max_depth
       THEN /\ UNCHANGED <<visited, pc, fetch_vars, renders>>
       ELSE /\ visited' = visited \cup {Head(to_visit).url}
            /\ pc' = "Fetching"
            /\ fpc' = "launch"
            /\ renders' = renders + 1
            /\ UNCHANGED <<driver, last_height, scroll_count, heights>>
    /\ UNCHANGED <<url, category_url, base_netloc, product_urls, ambiguous_links,
                   content, a_tags, a_idx>>
    /\ UNCHANGED <<oracle_vars, classified, oracle_calls, failed_batches, added,
                   submitted, answers,
                   cl_vars, ext_vars>>

\* line 205 false: the queue is empty, go on to the batches (lines 238-240)
WhileExit ==
    /\ pc = "while"
    /\ to_visit = <<>>
    /\ pc' = "Resolving"
    /\ i' = 0
    /\ opc' = "next"
    /\ UNCHANGED <<url, category_url, base_netloc, visited, to_visit, product_urls,
                   ambiguous_links, current_url, depth, content, a_tags, a_idx>>
    /\ UNCHANGED <<batch, response, verdicts, call_failed>>
    /\ UNCHANGED <<fetch_vars, hist_vars, cl_vars, ext_vars>>

----------------------------------------------------------------------------
(* fetch_category_page_content, lines 24-60 *)

\* line 47: the cap of the scroll loop
MaxScrolls == 10

\* what a step of the fetch leaves alone
FetchFrame ==
    /\ UNCHANGED <<crawl_vars, oracle_vars, hist_vars, cl_vars, ext_vars>>

\* line 58: any exception of the try block lands in the handler
Raise ==
    /\ fpc' = "except"
    /\ UNCHANGED <<driver, last_height, scroll_count, heights>>

\* lines 25-39: webdriver.Chrome(...) opens the session or raises
FetchLaunch ==
    /\ fpc = "launch"
    /\ \/ /\ driver' = "open"
          /\ fpc' = "get"
          /\ UNCHANGED <<last_height, scroll_count, heights>>
       \/ Raise
    /\ FetchFrame

\* lines 41-43: driver.get(url)
FetchGet ==
    /\ fpc = "get"
    /\ \/ /\ fpc' = "height"
          /\ UNCHANGED <<driver, last_height, scroll_count, heights>>
       \/ Raise
    /\ FetchFrame

\* lines 45-46: the first scrollHeight
FetchInitialHeight ==
    /\ fpc = "height"
    /\ \/ /\ last_height' = 20
          /\ heights' = <<20>>
          /\ scroll_count' = 0
          /\ fpc' = "loop"
          /\ UNCHANGED driver
       \/ Raise
    /\ FetchFrame

\* faulty variant: the loop stops only when the height has shrunk
FetchScroll_shrunk ==
    /\ fpc = "loop"
    /\ scroll_count < MaxScrolls
    /\ \/ \E new_height \in {last_height - 1, last_height, last_height + 1} :
             /\ heights' = Append(heights, new_height)
             /\ IF new_height < last_height
                THEN /\ fpc' = "snapshot"
                     /\ UNCHANGED <<last_height, scroll_count>>
                ELSE /\ last_height' = new_height
                     /\ scroll_count' = scroll_count + 1
                     /\ fpc' = "loop"
             /\ UNCHANGED driver
       \/ Raise
    /\ FetchFrame

\* faulty variant: the iteration counter is not advanced
FetchScroll_nocount ==
    /\ fpc = "loop"
    /\ scroll_count < MaxScrolls
    /\ \/ \E new_height \in {last_height - 1, last_height, last_height + 1} :
             /\ heights' = Append(heights, new_height)
             /\ IF new_height = last_height
                THEN /\ fpc' = "snapshot"
                     /\ UNCHANGED <<last_height, scroll_count>>
                ELSE /\ last_height' = new_height
                     /\ UNCHANGED scroll_count
                     /\ fpc' = "loop"
             /\ UNCHANGED driver
       \/ Raise
    /\ FetchFrame

\* lines 47-54: one iteration of the scroll loop; the page reports a height one
\* more, one less or equal to the last one, or a script raises
FetchScroll ==
    /\ fpc = "loop"
    /\ scroll_count < MaxScrolls
    /\ \/ \E new_height \in {last_height - 1, last_height, last_height + 1} :
             /\ heights' = Append(heights, new_height)
             /\ IF new_height = last_height
                THEN /\ fpc' = "snapshot"
                     /\ UNCHANGED <<last_height, scroll_count>>
                ELSE /\ last_height' = new_height
                     /\ scroll_count' = scroll_count + 1
                     /\ fpc' = "loop"
             /\ UNCHANGED driver
       \/ Raise
    /\ FetchFrame

\* line 47 false: the cap is reached
FetchLoopExit ==
    /\ fpc = "loop"
    /\ scroll_count >= MaxScrolls
    /\ fpc' = "snapshot"
    /\ UNCHANGED <<driver, last_height, scroll_count, heights>>
    /\ FetchFrame

\* what the function's return does to its locals
ReturnContent(c) ==
    /\ content' = c
    /\ fpc' = "returned"
    /\ last_height' = 0
    /\ scroll_count' = 0
    /\ heights' = <<>>

ReturnFrame ==
    /\ UNCHANGED <<url, category_url, base_netloc, visited, to_visit, product_urls,
                   ambiguous_links, pc, current_url, depth, a_tags, a_idx>>
    /\ UNCHANGED <<oracle_vars, hist_vars, cl_vars, ext_vars>>

\* lines 55-57: page_source, driver.quit(), return content; page_source may raise
FetchSnapshot ==
    /\ fpc = "snapshot"
    /\ \/ /\ \E page \in RenderablePages : ReturnContent(page)
          /\ driver' = "quit"
          /\ ReturnFrame
       \/ /\ Raise
          /\ FetchFrame

\* faulty variant: the handler hands back whatever page the browser holds
FetchExcept_stale ==
    /\ fpc = "except"
    /\ \E page \in RenderablePages : ReturnContent(page)
    /\ UNCHANGED driver
    /\ ReturnFrame

\* lines 58-60: the handler prints and the function returns ""
FetchExcept ==
    /\ fpc = "except"
    /\ ReturnContent(EmptyContent)
    /\ UNCHANGED driver
    /\ ReturnFrame

\* lines 212-217: back in the crawl: skip the page when content is empty,
\* else parse it and collect its <a href> elements
CheckContent ==
    /\ pc = "Fetching"
    /\ fpc = "returned"
    /\ fpc' = "idle"
    /\ IF content.empty
       THEN /\ pc' = "while"
            /\ UNCHANGED <<a_tags, a_idx>>
       ELSE /\ pc' = "Classifying"
            /\ a_tags' = content.anchors
            /\ a_idx' = 1
    /\ UNCHANGED <<url, category_url, base_netloc, visited, to_visit, product_urls,
                   ambiguous_links, current_url, depth, content>>
    /\ UNCHANGED <<driver, last_height, scroll_count, heights>>
    /\ UNCHANGED <<oracle_vars, hist_vars, cl_vars, ext_vars>>

----------------------------------------------------------------------------
(* crawl_category_page, lines 218-234: the loop over the anchors *)

\* lines 219-234 for one anchor
ClassifyAnchor ==
    /\ pc = "Classifying"
    /\ a_idx <= Len(a_tags)
    /\ LET a == a_tags[a_idx]
           absolute_url == urljoin(current_url, a.href)
           t == determine_link_type(a)
       IN IF ~is_internal_url(absolute_url, base_netloc)
          THEN UNCHANGED <<product_urls, ambiguous_links, to_visit, classified>>
          ELSE /\ classified' = classified + 1
               /\ product_urls' =
                      IF t.direct THEN product_urls \cup {absolute_url}
                      ELSE product_urls
               /\ ambiguous_links' =
                      IF ~t.direct /\ t.ambiguous
                      THEN Append(ambiguous_links, <<absolute_url, t.context>>)
                      ELSE ambiguous_links
               /\ to_visit' =
                      IF absolute_url \notin visited /\ depth < max_depth
                      THEN Append(to_visit, [url |-> absolute_url, depth |-> depth + 1])
                      ELSE to_visit
    /\ a_idx' = a_idx + 1
    /\ UNCHANGED <<url, category_url, base_netloc, visited, pc, current_url, depth,
                   content, a_tags>>
    /\ UNCHANGED <<fetch_vars, oracle_vars, renders, oracle_calls, failed_batches,
                   submitted, answers,
                   added, cl_vars, ext_vars>>

\* line 218 exhausted: back to the head of the while loop
ClassifyDone ==
    /\ pc = "Classifying"
    /\ a_idx > Len(a_tags)
    /\ pc' = "while"
    /\ UNCHANGED <<url, category_url, base_netloc, visited, to_visit, product_urls,
                   ambiguous_links, current_url, depth, content, a_tags, a_idx>>
    /\ UNCHANGED <<fetch_vars, oracle_vars, hist_vars, cl_vars, ext_vars>>

----------------------------------------------------------------------------
(* validate_links_with_llm, lines 138-175, and the batch loop, lines 238-247 *)

\* line 239
batch_size == 10

\* lines 168-171 for one line: the verdict it appends, if any
line_verdict(line) ==
    LET line_clean == upper(strip(line))
    IN IF Contains(<<"YES">>, line_clean) THEN <<"YES">>
       ELSE IF Contains(<<"NO">>, line_clean) THEN <<"NO">>
       ELSE <<>>

\* lines 164-171: the loop over response.splitlines()
RECURSIVE parse_lines(_)
parse_lines(lines) ==
    IF lines = <<>> THEN <<>>
    ELSE line_verdict(Head(lines)) \o parse_lines(Tail(lines))

\* faulty variant: a missing verdict defaults to "YES"
pad_verdicts_open(v, n) ==
    IF Len(v) < n THEN v \o [k \in 1..(n - Len(v)) |-> "YES"] ELSE v

\* lines 173-174: default to "NO" for each missing verdict
pad_verdicts(v, n) ==
    IF Len(v) < n THEN v \o [k \in 1..(n - Len(v)) |-> "NO"] ELSE v

\* faulty variant: the handler keeps the text that arrived before the failure
on_oracle_error_keep(partial) == partial

\* lines 160-162: the handler of a failed call sets response = ""
on_oracle_error(partial) == <<>>

\* faulty variant: verdicts are matched from the end of the list
zip_accept_reversed(b, v) ==
    {k \in 1..Min(Len(b), Len(v)) : UpperTok(v[Len(v) + 1 - k]) = "YES"}

\* lines 243-245: the positions of the batch whose zipped verdict is "YES"
zip_accept(b, v) ==
    {k \in 1..Min(Len(b), Len(v)) : UpperTok(v[k]) = "YES"}

OracleFrame ==
    /\ UNCHANGED <<crawl_vars, fetch_vars, cl_vars, ext_vars>>

\* faulty variant: the slice stops one link short of batch_size
BatchNext_short ==
    /\ pc = "Resolving"
    /\ opc = "next"
    /\ i < Len(ambiguous_links)
    /\ batch' = SubSeq(ambiguous_links, i + 1,
                       Min(i + batch_size - 1, Len(ambiguous_links)))
    /\ opc' = "call"
    /\ UNCHANGED <<i, response, verdicts, call_failed>>
    /\ UNCHANGED hist_vars
    /\ OracleFrame

\* lines 240-241: the next batch of the range loop
BatchNext ==
    /\ pc = "Resolving"
    /\ opc = "next"
    /\ i < Len(ambiguous_links)
    /\ batch' = SubSeq(ambiguous_links, i + 1, Min(i + batch_size, Len(ambiguous_links)))
    /\ opc' = "call"
    /\ UNCHANGED <<i, response, verdicts, call_failed>>
    /\ UNCHANGED hist_vars
    /\ OracleFrame

\* lines 145-157: the completion request; it raises, or the stream opens
OracleCall ==
    /\ opc = "call"
    /\ oracle_calls' = oracle_calls + 1
    /\ \/ /\ response' = <<>>
          /\ call_failed' = FALSE
          /\ opc' = "stream"
          /\ UNCHANGED failed_batches
       \/ /\ response' = on_oracle_error(<<>>)
          /\ call_failed' = TRUE
          /\ failed_batches' = failed_batches \cup {[at |-> i, lines |-> 0, yes |-> FALSE]}
          /\ opc' = "parse"
    /\ submitted' = Append(submitted, batch)
    /\ UNCHANGED <<i, batch, verdicts, renders, classified, added, answers>>
    /\ OracleFrame

\* a first chunk that holds one "YES" line more than a full batch has links
Burst == [k \in 1..(batch_size + 1) |-> <<"YES">>]

\* the chunks the stream may deliver next: one line, or the burst at its start
NextChunks == {<<line>> : line \in Lines} \cup (IF response = <<>> THEN {Burst} ELSE {})

\* lines 158-159: one more chunk of the stream appended to the response
OracleChunk ==
    /\ opc = "stream"
    /\ Len(response) < MaxLines
    /\ \E chunk \in NextChunks :
          response' = response \o chunk
    /\ UNCHANGED <<i, batch, verdicts, opc, call_failed>>
    /\ UNCHANGED hist_vars
    /\ OracleFrame

\* line 158: the stream is exhausted
OracleStreamEnd ==
    /\ opc = "stream"
    /\ opc' = "parse"
    /\ UNCHANGED <<i, batch, response, verdicts, call_failed>>
    /\ UNCHANGED hist_vars
    /\ OracleFrame

\* lines 158-162: the stream raises after some chunks
OracleFail ==
    /\ opc = "stream"
    /\ response' = on_oracle_error(response)
    /\ call_failed' = TRUE
    /\ failed_batches' =
           failed_batches \cup
               {[at |-> i, lines |-> Len(response),
                 yes |-> \E k \in 1..Len(response) :
                             Contains(<<"YES">>, upper(response[k]))]}
    /\ opc' = "parse"
    /\ UNCHANGED <<i, batch, verdicts>>
    /\ UNCHANGED <<renders, classified, oracle_calls, added, submitted, answers>>
    /\ OracleFrame

\* lines 164-175: parse, pad, return the verdicts
OracleReturn ==
    /\ opc = "parse"
    /\ verdicts' = pad_verdicts(parse_lines(response), Len(batch))
    /\ answers' = Append(answers, verdicts')
    /\ opc' = "apply"
    /\ UNCHANGED <<i, batch, response, call_failed>>
    /\ UNCHANGED <<renders, classified, oracle_calls, failed_batches, added,
                   submitted>>
    /\ OracleFrame

\* what applying the verdicts leaves alone
ApplyFrame ==
    /\ i' = i + batch_size
    /\ opc' = "next"
    /\ UNCHANGED <<url, category_url, base_netloc, visited, to_visit,
                   ambiguous_links, pc, current_url, depth, content, a_tags, a_idx>>
    /\ UNCHANGED <<batch, response, verdicts, call_failed>>
    /\ UNCHANGED <<renders, classified, oracle_calls, failed_batches, submitted,
                   answers>>
    /\ UNCHANGED <<fetch_vars, cl_vars, ext_vars>>

\* faulty variant: the result is overwritten with the links of this batch
ApplyVerdicts_replace ==
    /\ opc = "apply"
    /\ product_urls' = {batch[k][1] : k \in zip_accept(batch, verdicts)}
    /\ added' = added \cup {i + k : k \in zip_accept(batch, verdicts)}
    /\ ApplyFrame

\* faulty variant: a link whose verdict is not "YES" is taken out of the result
ApplyVerdicts_discard ==
    /\ opc = "apply"
    /\ product_urls' =
           (product_urls \cup {batch[k][1] : k \in zip_accept(batch, verdicts)})
               \ {batch[k][1] : k \in (1..Len(batch)) \ zip_accept(batch, verdicts)}
    /\ added' = added \cup {i + k : k \in zip_accept(batch, verdicts)}
    /\ ApplyFrame

\* faulty variant: the verdicts are zipped with the rest of the pending list,
\* not with the batch
ApplyVerdicts_spill ==
    /\ opc = "apply"
    /\ LET rest == SubSeq(ambiguous_links, i + 1, Len(ambiguous_links))
       IN /\ product_urls' =
                 product_urls \cup {rest[k][1] : k \in zip_accept(rest, verdicts)}
          /\ added' = added \cup {i + k : k \in zip_accept(rest, verdicts)}
    /\ ApplyFrame

\* lines 243-245, and the step of the range loop
ApplyVerdicts ==
    /\ opc = "apply"
    /\ product_urls' =
           product_urls \cup {batch[k][1] : k \in zip_accept(batch, verdicts)}
    /\ added' = added \cup {i + k : k \in zip_accept(batch, verdicts)}
    /\ i' = i + batch_size
    /\ opc' = "next"
    /\ UNCHANGED <<url, category_url, base_netloc, visited, to_visit,
                   ambiguous_links, pc, current_url, depth, content, a_tags, a_idx>>
    /\ UNCHANGED <<batch, response, verdicts, call_failed>>
    /\ UNCHANGED <<renders, classified, oracle_calls, failed_batches, submitted,
                   answers>>
    /\ UNCHANGED <<fetch_vars, cl_vars, ext_vars>>

\* line 247: the range loop is exhausted, return list(product_urls); the
\* locals of the batch loop end with the call
CrawlReturn ==
    /\ pc = "Resolving"
    /\ opc = "next"
    /\ i >= Len(ambiguous_links)
    /\ pc' = "Done"
    /\ opc' = "idle"
    /\ i' = 0
    /\ batch' = <<>>
    /\ response' = <<>>
    /\ verdicts' = <<>>
    /\ call_failed' = FALSE
    /\ UNCHANGED <<url, category_url, base_netloc, visited, to_visit, product_urls,
                   ambiguous_links, current_url, depth, content, a_tags, a_idx>>
    /\ UNCHANGED <<fetch_vars, hist_vars, cl_vars, ext_vars>>

----------------------------------------------------------------------------
(* The crawl of one seed *)

Next ==
    \/ CrawlBegin
    \/ WhileNext
    \/ WhileExit
    \/ FetchLaunch
    \/ FetchGet
    \/ FetchInitialHeight
    \/ FetchScroll
    \/ FetchLoopExit
    \/ FetchSnapshot
    \/ FetchExcept
    \/ CheckContent
    \/ ClassifyAnchor
    \/ ClassifyDone
    \/ BatchNext
    \/ OracleCall
    \/ OracleChunk
    \/ OracleStreamEnd
    \/ OracleFail
    \/ OracleReturn
    \/ ApplyVerdicts
    \/ CrawlReturn

Spec == Init /\ [][Next]_vars

----------------------------------------------------------------------------
(* The classifier on its own: determine_link_type applied to one anchor *)

\* longest href, in tokens, of the enumerated classifier inputs
MaxHrefLen == 3

HrefTokens == {"/", "product", "item", "x"}

\* "/product/123", "/catalog/xyz-item-99", "/about-us"
H_product123 == <<"/", "product", "/", "123">>
H_catalog == <<"/", "catalog", "/", "xyz-", "item", "-99">>
H_about == <<"/", "about-us">>

ClassifierHrefs ==
    UNION {[1..n -> HrefTokens] : n \in 0..MaxHrefLen}
        \cup {H_product123, H_catalog, H_about}

ClassifierTexts ==
    { <<>>, <<"Shoe">>, <<"$", "5">>, <<"$">>, <<"Add to Cart">>,
      <<" ", "$", "9", " ">> }

ClassifierSiblings == { <<>>, <<"Buy">>, <<"$", "1">>, <<"ADD TO CART">> }

\* no class attribute; class=""; "product-card"; "nav-item"; "items-center";
\* "x"; "x product"
ClassifierClasses ==
    { [has |-> FALSE, classes |-> <<>>],
      [has |-> TRUE, classes |-> << <<>> >>],
      [has |-> TRUE, classes |-> << <<"product", "-card">> >>],
      [has |-> TRUE, classes |-> << <<"nav-", "item">> >>],
      [has |-> TRUE, classes |-> << <<"item", "s-center">> >>],
      [has |-> TRUE, classes |-> << <<"x">> >>],
      [has |-> TRUE, classes |-> << <<"x">>, <<"product">> >>] }

ClassifierInputs ==
    {Anchor(h, t, c.has, c.classes, sib) :
        h \in ClassifierHrefs, t \in ClassifierTexts,
        c \in ClassifierClasses, sib \in ClassifierSiblings}

InitClassify ==
    /\ url = <<>>
    /\ pc = "classifier"
    /\ CrawlIdle
    /\ cl_anchor \in ClassifierInputs
    /\ cl_out = NoOut
    /\ AppIdle
    /\ ThreadsIdle

\* one call of determine_link_type
ClassifyOne ==
    /\ pc = "classifier"
    /\ cl_out' = determine_link_type(cl_anchor)
    /\ pc' = "classified"
    /\ UNCHANGED <<url, category_url, base_netloc, visited, to_visit, product_urls,
                   ambiguous_links, current_url, depth, content, a_tags, a_idx>>
    /\ UNCHANGED <<fetch_vars, oracle_vars, hist_vars, cl_anchor, ext_vars>>

NextClassify == ClassifyOne

SpecClassify == InitClassify /\ [][NextClassify]_vars

----------------------------------------------------------------------------
(* streamlit_app, lines 274-285: the loop over the seeds *)

\* line 274: the non-empty lines of the text area, in order
SeedLists == {<<a>> : a \in Seeds} \cup {<<a, b>> : a \in Seeds, b \in Seeds}

InitApp ==
    /\ url = <<>>
    /\ pc = "app"
    /\ CrawlIdle
    /\ cl_anchor = NoAnchor
    /\ cl_out = NoOut
    /\ category_urls \in SeedLists
    /\ app_i = 0
    /\ results = {}
    /\ app_pc = "loop"
    /\ crawl_log = <<>>
    /\ ThreadsIdle

\* what the loop's own steps leave alone
AppFrame ==
    /\ UNCHANGED <<category_url, base_netloc, visited, to_visit, product_urls,
                   ambiguous_links, current_url, depth, content, a_tags, a_idx>>
    /\ UNCHANGED <<fetch_vars, oracle_vars, hist_vars, cl_vars, th>>

\* lines 279-281: the next seed is handed to crawl_category_page
AppCrawl ==
    /\ app_pc = "loop"
    /\ app_i < Len(category_urls)
    /\ url' = category_urls[app_i + 1]
    /\ pc' = "start"
    /\ app_pc' = "crawling"
    /\ UNCHANGED <<category_urls, app_i, results, crawl_log>>
    /\ AppFrame

\* what the loop holds once a crawl has returned: its locals are gone
AppReturned ==
    /\ url' = <<>>
    /\ pc' = "app"
    /\ category_url' = <<>>
    /\ base_netloc' = <<>>
    /\ visited' = {}
    /\ to_visit' = <<>>
    /\ product_urls' = {}
    /\ ambiguous_links' = <<>>
    /\ current_url' = <<>>
    /\ depth' = 0
    /\ content' = EmptyContent
    /\ a_tags' = <<>>
    /\ a_idx' = 1
    /\ driver' = "none"
    /\ fpc' = "idle"
    /\ last_height' = 0
    /\ scroll_count' = 0
    /\ heights' = <<>>
    /\ i' = 0
    /\ batch' = <<>>
    /\ response' = <<>>
    /\ verdicts' = <<>>
    /\ opc' = "idle"
    /\ call_failed' = FALSE
    /\ renders' = 0
    /\ classified' = 0
    /\ oracle_calls' = 0
    /\ failed_batches' = {}
    /\ added' = {}
    /\ submitted' = <<>>
    /\ answers' = <<>>
    /\ UNCHANGED <<cl_vars, th>>

\* what the finished crawl returned and what happened in it
Outcome ==
    [url |-> url,
     links |-> product_urls,
     render_failed |-> content.empty,
     failed |-> {f.at : f \in failed_batches},
     direct |-> {urljoin(category_url, a_tags[j].href) :
                    j \in {n \in 1..Len(a_tags) :
                             /\ is_internal_url(urljoin(category_url, a_tags[n].href),
                                                base_netloc)
                             /\ determine_link_type(a_tags[n]).direct}},
     confirmed |-> {<<p, ambiguous_links[p][1]>> : p \in added}]

\* faulty variant: a crawl in which the render or an oracle call failed ends
\* the run, nothing is stored for it or for the seeds after it
AppStore_abort ==
    /\ app_pc = "crawling"
    /\ pc = "Done"
    /\ IF content.empty \/ failed_batches # {}
       THEN /\ app_pc' = "complete"
            /\ UNCHANGED <<results, app_i, crawl_log>>
       ELSE /\ results' = {r \in results : r.url # url}
                              \cup {[url |-> url, links |-> product_urls]}
            /\ crawl_log' = Append(crawl_log, Outcome)
            /\ app_i' = app_i + 1
            /\ app_pc' = "loop"
    /\ UNCHANGED category_urls
    /\ AppReturned

\* lines 282-283: results[url] = product_links, and on to the next seed
AppStore ==
    /\ app_pc = "crawling"
    /\ pc = "Done"
    /\ results' = {r \in results : r.url # url}
                      \cup {[url |-> url, links |-> product_urls]}
    /\ crawl_log' = Append(crawl_log, Outcome)
    /\ app_i' = app_i + 1
    /\ app_pc' = "loop"
    /\ UNCHANGED category_urls
    /\ AppReturned

\* line 285: the loop is exhausted, "Crawling complete!"
AppComplete ==
    /\ app_pc = "loop"
    /\ app_i >= Len(category_urls)
    /\ app_pc' = "complete"
    /\ UNCHANGED <<url, pc, category_urls, app_i, results, crawl_log>>
    /\ AppFrame

NextApp ==
    \/ AppCrawl
    \/ AppStore
    \/ AppComplete
    \/ Next

SpecApp == InitApp /\ [][NextApp]_vars

----------------------------------------------------------------------------
(* async_crawl_category_page, lines 250-251: crawls run in threads *)

\* the pages the threads' renders may return
ConcPages ==
    {[empty |-> FALSE, anchors |-> l] :
        l \in {<<A_product, A_ambig>>, <<A_ambig, A_sub>>, LongPage}}

\* the oracle's responses to the threads' batches
ConcResponses ==
    { <<>>, << <<"YES">> >>, << <<"no">> >>, << <<"no">>, <<"YES">> >>, Burst }

\* two crawls, each in a thread of its own
Threads == {1, 2}

\* the locals of crawl_category_page in a thread that has not run yet
NewThread(seed) ==
    [url |-> seed, pc |-> "start", category_url |-> <<>>, base_netloc |-> <<>>,
     visited |-> {}, to_visit |-> <<>>, product_urls |-> {},
     ambiguous_links |-> <<>>, current_url |-> <<>>, depth |-> 0,
     content |-> EmptyContent, a_idx |-> 1, i |-> 0, answers |-> <<>>]

InitConc ==
    /\ url = <<>>
    /\ pc = "threads"
    /\ CrawlIdle
    /\ cl_anchor = NoAnchor
    /\ cl_out = NoOut
    /\ AppIdle
    /\ \E a \in Seeds : \E b \in Seeds \ {a} : th = <<NewThread(a), NewThread(b)>>

\* the threads touch nothing but their own locals
ConcFrame ==
    /\ UNCHANGED <<crawl_vars, fetch_vars, oracle_vars, hist_vars, cl_vars, app_vars>>

\* faulty variant: the result set is one module-level set that every crawl
\* adds to
ThreadResult_shared(t) == UNION {th[u].product_urls : u \in 1..Len(th)}

\* lines 194-195: product_urls is a set created by the call, local to it
ThreadResult(t) == th[t].product_urls

\* lines 189-203 in thread t
ThBegin(t) ==
    /\ th[t].pc = "start"
    /\ LET cu == IF th[t].url # <<>> /\ th[t].url[1] \in HttpPrefixed
                 THEN th[t].url ELSE <<"http:", "//">> \o th[t].url
       IN th' = [th EXCEPT ![t].category_url = cu,
                           ![t].base_netloc = netloc(cu),
                           ![t].visited = {},
                           ![t].product_urls = {},
                           ![t].ambiguous_links = <<>>,
                           ![t].to_visit = <<[url |-> cu, depth |-> 0]>>,
                           ![t].pc = "while"]
    /\ ConcFrame

\* lines 205-212 in thread t: pop the queue, or leave the loop (lines 238-240)
ThWhile(t) ==
    /\ th[t].pc = "while"
    /\ IF th[t].to_visit = <<>>
       THEN th' = [th EXCEPT ![t].pc = "Resolving", ![t].i = 0]
       ELSE LET head == Head(th[t].to_visit)
            IN IF head.url \in th[t].visited \/ head.depth > max_depth
               THEN th' = [th EXCEPT ![t].to_visit = Tail(th[t].to_visit),
                                     ![t].current_url = head.url,
                                     ![t].depth = head.depth]
               ELSE th' = [th EXCEPT ![t].to_visit = Tail(th[t].to_visit),
                                     ![t].current_url = head.url,
                                     ![t].depth = head.depth,
                                     ![t].visited = th[t].visited \cup {head.url},
                                     ![t].pc = "Fetching"]
    /\ ConcFrame

\* lines 212-217 in thread t: the render returns a page, or "" after a failure
ThFetch(t) ==
    /\ th[t].pc = "Fetching"
    /\ \E page \in ConcPages \cup {EmptyContent} :
          th' = [th EXCEPT ![t].content = page,
                           ![t].a_idx = 1,
                           ![t].pc = IF page.empty THEN "while" ELSE "Classifying"]
    /\ ConcFrame

\* lines 218-234 in thread t, for one anchor
ThClassify(t) ==
    /\ th[t].pc = "Classifying"
    /\ th[t].a_idx <= Len(th[t].content.anchors)
    /\ LET a == th[t].content.anchors[th[t].a_idx]
           absolute_url == urljoin(th[t].current_url, a.href)
           type == determine_link_type(a)
           internal == is_internal_url(absolute_url, th[t].base_netloc)
       IN th' = [th EXCEPT
                   ![t].a_idx = th[t].a_idx + 1,
                   ![t].product_urls =
                       IF internal /\ type.direct
                       THEN ThreadResult(t) \cup {absolute_url}
                       ELSE ThreadResult(t),
                   ![t].ambiguous_links =
                       IF internal /\ ~type.direct /\ type.ambiguous
                       THEN Append(th[t].ambiguous_links, <<absolute_url, type.context>>)
                       ELSE th[t].ambiguous_links,
                   ![t].to_visit =
                       IF internal /\ absolute_url \notin th[t].visited
                                   /\ th[t].depth < max_depth
                       THEN Append(th[t].to_visit,
                                   [url |-> absolute_url, depth |-> th[t].depth + 1])
                       ELSE th[t].to_visit]
    /\ ConcFrame

\* line 218 in thread t: the anchors are exhausted, back to the while loop
ThClassifyDone(t) ==
    /\ th[t].pc = "Classifying"
    /\ th[t].a_idx > Len(th[t].content.anchors)
    /\ th' = [th EXCEPT ![t].pc = "while"]
    /\ ConcFrame

\* lines 240-245 in thread t, for one batch: the call, which answers or fails,
\* and the verdicts zipped with the batch
ThBatch(t) ==
    /\ th[t].pc = "Resolving"
    /\ th[t].i < Len(th[t].ambiguous_links)
    /\ LET b == SubSeq(th[t].ambiguous_links, th[t].i + 1,
                       Min(th[t].i + batch_size, Len(th[t].ambiguous_links)))
       IN \E r \in ConcResponses \cup {on_oracle_error(<<>>)} :
             LET v == pad_verdicts(parse_lines(r), Len(b))
             IN th' = [th EXCEPT
                         ![t].product_urls =
                             ThreadResult(t) \cup {b[k][1] : k \in zip_accept(b, v)},
                         ![t].i = th[t].i + batch_size,
                         ![t].answers = Append(th[t].answers, v)]
    /\ ConcFrame

\* line 247 in thread t
ThReturn(t) ==
    /\ th[t].pc = "Resolving"
    /\ th[t].i >= Len(th[t].ambiguous_links)
    /\ th' = [th EXCEPT ![t].pc = "Done"]
    /\ ConcFrame

NextConc ==
    \E t \in Threads :
        \/ ThBegin(t)
        \/ ThWhile(t)
        \/ ThFetch(t)
        \/ ThClassify(t)
        \/ ThClassifyDone(t)
        \/ ThBatch(t)
        \/ ThReturn(t)

SpecConc == InitConc /\ [][NextConc]_vars

----------------------------------------------------------------------------
(* Properties *)

\* the host of u is the seed's host or a subdomain of it
HostOfSeed(u) ==
    \/ netloc(u) = base_netloc
    \/ EndsWith(netloc(u), <<".">> \o base_netloc)

\* C1: every URL of the result has a host equal to the seed's host or a
\* subdomain of it (host ends with "." + seed host); a URL with another host,
\* or with no host, never reaches the result.
C1_ResultInternal == \A u \in product_urls : HostOfSeed(u)

\* the offset of the batch whose verdicts were last returned or applied
BatchOffset == IF opc = "apply" THEN i ELSE i - batch_size

\* validate_links_with_llm has returned for the current batch
Returned == opc = "apply" \/ (opc = "next" /\ oracle_calls > 0)

\* C2: when k < N verdicts are parsed from the response to a batch of N links,
\* the function returns exactly N verdicts, the k parsed ones in order followed
\* by N - k "NO", and no link at a position past k is accepted.
C2_FailClosedPadding ==
    Returned =>
        LET parsed == parse_lines(response)
            k == Len(parsed)
            n == Len(batch)
        IN k < n =>
             /\ Len(verdicts) = n
             /\ SubSeq(verdicts, 1, k) = parsed
             /\ \A j \in (k + 1)..n :
                   /\ verdicts[j] = "NO"
                   /\ (BatchOffset + j) \notin added

\* a batch of ten links, three verdicts parsed, one of them positive, applied
C2_Witness ==
    /\ opc = "next"
    /\ Len(batch) = batch_size
    /\ Len(parse_lines(response)) = 3
    /\ verdicts[2] = "YES"
    /\ Len(verdicts) = batch_size
    /\ (BatchOffset + 2) \in added

\* the line holds the token, in any case
HasToken(line, tok) == \E k \in 1..Len(line) : UpperTok(line[k]) = tok
VerdictBearing(line) == HasToken(line, "YES") \/ HasToken(line, "NO")
Unambiguous(line) == ~(HasToken(line, "YES") /\ HasToken(line, "NO"))
BearingLines(resp) == SelectSeq(resp, VerdictBearing)

\* C3: when the k-th verdict-bearing line of the response answers the k-th
\* item, the link at batch position k is added to the result exactly when the
\* k-th verdict is positive; a verdict is never applied to another position.
C3_OrderPreserved ==
    (opc = "next" /\ oracle_calls > 0
        /\ \A l \in 1..Len(response) : Unambiguous(response[l])) =>
        LET bearing == BearingLines(response)
        IN \A k \in 1..Len(batch) :
              LET positive == k <= Len(bearing) /\ HasToken(bearing[k], "YES")
              IN /\ ((BatchOffset + k) \in added) <=> positive
                 /\ positive => batch[k][1] \in product_urls

\* batch [urlA, urlB], response "no" / "YES": urlA rejected, urlB accepted
C3_Witness ==
    /\ opc = "next"
    /\ Len(batch) = 2
    /\ batch[1][1] # batch[2][1]
    /\ response = << <<"no">>, <<"YES">> >>
    /\ batch[1][1] \notin product_urls
    /\ batch[2][1] \in product_urls
    /\ added = {2}

\* ceil(n / batch_size)
NumBatches(n) == (n + batch_size - 1) \div batch_size

\* C4: when the oracle call of a batch fails, before any text or after part of
\* the response, every position of the batch is "NO", none of its links is
\* added, the crawl goes on and the remaining batches are still submitted.
C4_OracleFailure ==
    /\ (call_failed /\ Returned) =>
           verdicts = [k \in 1..Len(batch) |-> "NO"]
    /\ \A f \in failed_batches :
           \A k \in 1..batch_size : (f.at + k) \notin added
    /\ (call_failed /\ opc \in {"parse", "apply"}) => pc = "Resolving"
    /\ pc = "Done" => oracle_calls = NumBatches(Len(ambiguous_links))

\* the first of two batches failed after a "YES" line had arrived; the second
\* batch was submitted and the crawl is done
C4_Witness ==
    /\ pc = "Done"
    /\ oracle_calls = 2
    /\ \E f \in failed_batches : f.at = 0 /\ f.lines > 0 /\ f.yes
    /\ \A k \in 1..batch_size : k \notin added
    /\ (batch_size + 1) \in added

\* C5: when rendering the seed fails, the fetch returns empty HTML without
\* raising and the crawl goes to Done with an empty result: no anchor is
\* extracted or classified and the oracle is never called.
C5_RenderFailure ==
    /\ []((fpc = "except" \/ (renders > 0 /\ fpc \in {"returned", "idle"}
                                 /\ content.empty)) =>
            /\ product_urls = {}
            /\ ambiguous_links = <<>>
            /\ a_tags = <<>>
            /\ classified = 0
            /\ oracle_calls = 0
            /\ pc \in {"Fetching", "while", "Resolving", "Done"})
    /\ [][(fpc = "except") =>
            (fpc' = "returned" /\ content'.empty /\ pc' = pc)]_vars

\* navigation failed after the browser was launched; the crawl is done, empty
C5_Witness ==
    /\ pc = "Done"
    /\ renders = 1
    /\ content.empty
    /\ driver = "open"
    /\ product_urls = {}
    /\ oracle_calls = 0

\* C6: on every exit path of fetch_category_page_content a browser session
\* that was opened has been released by the time the function returns.
C6_SessionReleased == fpc = "returned" => driver # "open"

\* scroll iterations performed so far
Iterations == Len(heights) - 1

\* the height grew on each of the first k scroll iterations
GrewFirst(k) == \A j \in 1..k : heights[j + 1] > heights[j]

\* C7: for k < 10, if the height grows on each of the first k scroll
\* iterations and then stays the same, the loop performs exactly k + 1
\* iterations before the snapshot: it does not stop while the page grows, and
\* it stops at the first unchanged height.
C7_ScrollTermination ==
    fpc = "snapshot" =>
        \A k \in 0..(MaxScrolls - 1) :
            (k <= Iterations /\ GrewFirst(k)) =>
                /\ Iterations >= k + 1
                /\ heights[k + 2] = heights[k + 1] => Iterations = k + 1

\* three growing iterations, then the confirming one: four in all
C7_Witness ==
    /\ fpc = "snapshot"
    /\ heights = <<20, 21, 22, 23, 23>>
    /\ scroll_count = 3

\* C8: whatever heights the page reports, the scroll loop performs at most 10
\* iterations; after the tenth the loop guard is false and only the snapshot
\* remains, and a fetch that released its session returned a page.
C8_ScrollCap ==
    /\ scroll_count <= MaxScrolls
    /\ heights # <<>> => Iterations <= MaxScrolls
    /\ (fpc = "loop" /\ Iterations = MaxScrolls) => scroll_count >= MaxScrolls
    /\ (fpc = "returned" /\ driver = "quit") => ~content.empty

\* a page whose height changed on every one of ten iterations
C8_Witness ==
    /\ fpc = "snapshot"
    /\ Iterations = MaxScrolls
    /\ \A j \in 1..MaxScrolls : heights[j + 1] # heights[j]

\* the strong signals, read off the anchor
SegmentIn(h) ==
    \E k \in 1..(Len(h) - 2) :
        h[k] = "/" /\ h[k + 1] \in {"product", "item"} /\ h[k + 2] = "/"
ClassIn(a) ==
    /\ a.has_class
    /\ \E c \in 1..Len(a.classes) :
          \E j \in 1..Len(a.classes[c]) : a.classes[c][j] \in {"product", "item"}
PriceOrCartIn(t) ==
    \E k \in 1..Len(t) :
        \/ t[k] \in {"add to cart", "Add to Cart", "ADD TO CART"}
        \/ (t[k] = "$" /\ k < Len(t) /\ t[k + 1] \in Digits)
\* the parent's text is made of the anchor's text and of the sibling's
ParentTextSignal(a) == PriceOrCartIn(a.text) \/ PriceOrCartIn(a.sibling)
StrongSignal(a) ==
    \/ SegmentIn(a.href)
    \/ ClassIn(a)
    \/ PriceOrCartIn(a.text)
    \/ ParentTextSignal(a)
KeywordIn(h) == \E k \in 1..Len(h) : h[k] \in {"product", "item"}
NoOtherSignal(a) ==
    ~ClassIn(a) /\ ~PriceOrCartIn(a.text) /\ ~PriceOrCartIn(a.sibling)

\* C9, as the claim states it: Accept exactly when a strong signal fires,
\* Ambiguous exactly when none fires and the href holds a keyword.
C9_Original ==
    pc = "classified" =>
        /\ cl_out.direct <=> StrongSignal(cl_anchor)
        /\ cl_out.ambiguous <=> (~StrongSignal(cl_anchor) /\ KeywordIn(cl_anchor.href))

\* C9, amended: for an anchor with a non-empty href, Accept exactly when a
\* strong signal fires, Ambiguous exactly when none fires and the href holds a
\* keyword, Reject otherwise, never Accept and Ambiguous together; an anchor
\* with an empty href is Reject whatever its signals.
C9_Precedence ==
    pc = "classified" =>
        /\ cl_anchor.href # <<>> =>
              /\ cl_out.direct <=> StrongSignal(cl_anchor)
              /\ cl_out.ambiguous <=>
                     (~StrongSignal(cl_anchor) /\ KeywordIn(cl_anchor.href))
        /\ cl_anchor.href = <<>> => (~cl_out.direct /\ ~cl_out.ambiguous)
        /\ ~(cl_out.direct /\ cl_out.ambiguous)
        /\ (cl_anchor.href = H_product123 /\ NoOtherSignal(cl_anchor)) =>
              cl_out.direct
        /\ (cl_anchor.href = H_catalog /\ NoOtherSignal(cl_anchor)) =>
              cl_out.ambiguous
        /\ (cl_anchor.href = H_about /\ NoOtherSignal(cl_anchor)) =>
              (~cl_out.direct /\ ~cl_out.ambiguous)

\* "/catalog/xyz-item-99" with no other signal came out Ambiguous
C9_Witness ==
    /\ pc = "classified"
    /\ cl_anchor.href = H_catalog
    /\ NoOtherSignal(cl_anchor)
    /\ cl_out.ambiguous
    /\ ~cl_out.direct

\* the stage of the crawl: 1 Fetching, 2 Extracting (within CheckContent),
\* 3 Classifying, 4 Resolving, 5 Done
Stage ==
    CASE pc = "start" -> 1
      [] pc = "while" /\ renders = 0 -> 1
      [] pc = "Fetching" -> 1
      [] pc = "Classifying" -> 3
      [] pc = "while" /\ renders > 0 -> 3
      [] pc = "Resolving" -> 4
      [] pc = "Done" -> 5

\* C10: the crawl moves through Fetching, Extracting, Classifying, Resolving,
\* Done in that order and never back: the page is rendered before any anchor
\* is classified, no oracle call is made until every anchor is classified,
\* and after the first oracle call nothing is classified or rendered.
C10_StageOrder ==
    /\ []((classified > 0 \/ pc = "Classifying") =>
            (renders > 0 /\ fpc = "idle" /\ ~content.empty))
    /\ []((oracle_calls > 0 \/ pc \in {"Resolving", "Done"}) =>
            (a_idx > Len(a_tags) /\ to_visit = <<>> /\ fpc = "idle"))
    /\ [][Stage' >= Stage]_vars
    /\ [][(pc \in {"Resolving", "Done"}) =>
            (classified' = classified /\ renders' = renders)]_vars

\* a crawl that rendered, classified, called the oracle and is done
C10_Witness ==
    /\ pc = "Done"
    /\ renders = 1
    /\ classified >= 2
    /\ oracle_calls >= 1
    /\ product_urls # {}

----------------------------------------------------------------------------
(* Properties of the result and of the batches *)

\* the URL of the j-th anchor of the page, resolved against the seed
AnchorUrl(j) == urljoin(category_url, a_tags[j].href)

\* the j-th anchor passed the filter of line 222
Kept(j) == is_internal_url(AnchorUrl(j), base_netloc)

\* the verdict of the classifier, read off the anchor's signals
IsAccept(a) == a.href # <<>> /\ StrongSignal(a)
IsAmbiguous(a) == a.href # <<>> /\ ~StrongSignal(a) /\ KeywordIn(a.href)
IsReject(a) == ~IsAccept(a) /\ ~IsAmbiguous(a)

\* the anchors kept and classified Ambiguous, in document order: the p-th one
\* holds position p of the pending list
AmbiguousAnchors ==
    SelectSeq([j \in 1..Len(a_tags) |-> j],
              LAMBDA j : Kept(j) /\ IsAmbiguous(a_tags[j]))

\* the oracle's answer to the batch of position p holds "YES" at p's place
Positive(p) ==
    LET b == ((p - 1) \div batch_size) + 1
        k == ((p - 1) % batch_size) + 1
    IN b <= Len(answers) /\ k <= Len(answers[b]) /\ answers[b][k] = "YES"

AcceptedUrls == {AnchorUrl(j) : j \in {n \in 1..Len(a_tags) : Kept(n) /\ IsAccept(a_tags[n])}}
ConfirmedUrls ==
    LET amb == AmbiguousAnchors
    IN {AnchorUrl(amb[p]) : p \in {q \in 1..Len(amb) : Positive(q)}}

\* C11, as the claim states it: at Done the result is the union of the URLs of
\* the kept anchors classified Accept and of the Ambiguous anchors with a
\* positive verdict at their position; an Ambiguous link is never in the
\* result without a positive verdict at its position, and a Reject link only
\* when another anchor with the same URL put it there.
C11_Original ==
    pc = "Done" =>
        LET amb == AmbiguousAnchors
            union == AcceptedUrls \cup ConfirmedUrls
        IN /\ product_urls = union
           /\ \A p \in 1..Len(amb) :
                 AnchorUrl(amb[p]) \in product_urls => Positive(p)
           /\ \A j \in 1..Len(a_tags) :
                 (Kept(j) /\ IsReject(a_tags[j]) /\ AnchorUrl(j) \in product_urls) =>
                     AnchorUrl(j) \in union

\* C11, amended: at Done the result is exactly that union, duplicates
\* collapsed; an Ambiguous or a Reject link is in the result only when its own
\* position received a positive verdict or another anchor with the same URL,
\* Accept or confirmed by the oracle, put it there.
C11_ResultUnion ==
    pc = "Done" =>
        LET amb == AmbiguousAnchors
            accepted == AcceptedUrls
            union == accepted \cup ConfirmedUrls
        IN /\ product_urls = union
           /\ Len(ambiguous_links) = Len(amb)
           /\ \A p \in 1..Len(amb) :
                 /\ ambiguous_links[p][1] = AnchorUrl(amb[p])
                 /\ ambiguous_links[p][1] \in product_urls =>
                       \/ Positive(p)
                       \/ ambiguous_links[p][1] \in accepted
                       \/ \E q \in 1..Len(amb) :
                             /\ q # p
                             /\ Positive(q)
                             /\ ambiguous_links[q][1] = ambiguous_links[p][1]
           /\ \A j \in 1..Len(a_tags) :
                 (Kept(j) /\ IsReject(a_tags[j]) /\ AnchorUrl(j) \in product_urls) =>
                     AnchorUrl(j) \in union

\* "/product/1" accepted by its path, "/deal-item-5" confirmed by the oracle:
\* the two of them are the result
C11_Witness ==
    /\ pc = "Done"
    /\ a_tags = <<A_product, A_ambig>>
    /\ answers = << <<"YES">> >>
    /\ Cardinality(product_urls) = 2
    /\ product_urls = AcceptedUrls \cup ConfirmedUrls

\* the batches laid end to end, in submission order
RECURSIVE Concatenation(_)
Concatenation(ss) ==
    IF ss = <<>> THEN <<>> ELSE Head(ss) \o Concatenation(Tail(ss))

IsPrefix(s, t) == Len(s) <= Len(t) /\ SubSeq(t, 1, Len(s)) = s

\* C12: the batches submitted to the oracle each hold between 1 and 10 links,
\* all but the last hold exactly 10, laid end to end in submission order they
\* are the pending list in its original order, and when the crawl is done the
\* number of oracle calls is ceil(n/10) for a pending list of n links (0 for
\* an empty one).
C12_BatchPartition ==
    /\ Len(submitted) = oracle_calls
    /\ \A b \in 1..Len(submitted) :
          /\ Len(submitted[b]) >= 1
          /\ Len(submitted[b]) <= 10
          /\ b < Len(submitted) => Len(submitted[b]) = 10
    /\ IsPrefix(Concatenation(submitted), ambiguous_links)
    /\ pc = "Done" =>
          /\ Concatenation(submitted) = ambiguous_links
          /\ oracle_calls = (Len(ambiguous_links) + 9) \div 10
          /\ ambiguous_links = <<>> => oracle_calls = 0

\* eleven pending links went out as a batch of ten and a batch of one
C12_Witness ==
    /\ pc = "Done"
    /\ Len(ambiguous_links) = 11
    /\ Len(submitted) = 2
    /\ Len(submitted[1]) = 10
    /\ Len(submitted[2]) = 1
    /\ oracle_calls = 2

\* the seed as lines 189-192 normalize it
NormalizedSeed ==
    IF url # <<>> /\ url[1] \in HttpPrefixed THEN url ELSE <<"http:", "//">> \o url

\* C15: in one crawl the renderer is invoked exactly once, on the normalized
\* seed URL; no link found on the page is ever added to the to-visit queue or
\* fetched, whatever the page contains.
C15_DepthZero ==
    pc # "start" =>
        /\ category_url = NormalizedSeed
        /\ renders <= 1
        /\ \A k \in 1..Len(to_visit) : to_visit[k] = [url |-> category_url, depth |-> 0]
        /\ visited \subseteq {category_url}
        /\ pc \in {"Fetching", "Classifying", "Resolving", "Done"} =>
              /\ renders = 1
              /\ current_url = category_url
              /\ visited = {category_url}
              /\ to_visit = <<>>

\* a page with two internal links was crawled to the end: one render, the
\* queue empty
C15_Witness ==
    /\ pc = "Done"
    /\ a_tags = <<A_product, A_sub>>
    /\ Kept(1) /\ Kept(2)
    /\ AnchorUrl(1) # AnchorUrl(2)
    /\ renders = 1
    /\ to_visit = <<>>

\* C16: the scroll loop ends at the first iteration in which the height did
\* not increase over the previous height, whether it stayed equal or became
\* smaller: every iteration before the last one performed saw the height grow.
C16_StopsWhenNotGrowing ==
    (fpc \in {"loop", "snapshot"} /\ heights # <<>>) =>
        \A j \in 1..(Iterations - 1) : heights[j + 1] > heights[j]

\* an unambiguous answer: the line holds one of the two tokens and not the other
ClearAnswer(line) == VerdictBearing(line) /\ Unambiguous(line)
ClearLines(resp) == SelectSeq(resp, ClearAnswer)

\* C17: only the lines that are an unambiguous answer fill positions: the link
\* at batch position k is accepted exactly when the k-th such line holds the
\* positive token, so a line holding both tokens (or neither) accepts no link
\* and shifts no later verdict.
C17_VerdictParsing ==
    (opc = "next" /\ oracle_calls > 0) =>
        LET clear == ClearLines(response)
        IN \A k \in 1..Len(batch) :
              ((BatchOffset + k) \in added) <=>
                  (k <= Len(clear) /\ HasToken(clear[k], "YES"))

\* one of the parent's classes is, as a whole, a product-card-style token
WholeClassToken(a) ==
    /\ a.has_class
    /\ \E c \in 1..Len(a.classes) :
          a.classes[c] \in { <<"product", "-card">>, <<"product">>, <<"item">> }

\* C18: an anchor that no other signal accepts is Accepted by its parent's
\* classes only when one of them is a whole token equal to product-card,
\* product or item; a class that merely contains such a word (nav-item,
\* items-center) does not accept it.
C18_WholeClassToken ==
    (/\ pc = "classified"
     /\ cl_out.direct
     /\ ~SegmentIn(cl_anchor.href)
     /\ ~PriceOrCartIn(cl_anchor.text)
     /\ ~PriceOrCartIn(cl_anchor.sibling)) => WholeClassToken(cl_anchor)

\* the batches whose verdicts have been applied to the result
AppliedBatches == IF opc = "apply" THEN Len(answers) - 1 ELSE Len(answers)

\* the batch that holds position p of the pending list
BatchOf(p) == ((p - 1) \div batch_size) + 1

\* C19: verdicts are confined to their batch. A pending link has been accepted
\* exactly when its own batch has been applied and the verdicts of that batch
\* hold "YES" at the link's place in the batch; verdicts beyond the batch's
\* length accept nothing, in that batch or in any other; the accepted links
\* are in the result, which at Done holds the directly accepted URLs and those
\* links only.
C19_VerdictsConfined ==
    /\ added \subseteq 1..Len(ambiguous_links)
    /\ \A p \in 1..Len(ambiguous_links) :
          (p \in added) <=> (BatchOf(p) <= AppliedBatches /\ Positive(p))
    /\ \A p \in added : ambiguous_links[p][1] \in product_urls
    /\ pc = "Done" =>
          product_urls = AcceptedUrls \cup {ambiguous_links[p][1] : p \in added}

\* the answer to the first batch of ten held eleven "YES"; the eleventh link,
\* alone in the second batch, got "NO" there and is not in the result
C19_Witness ==
    /\ pc = "Done"
    /\ Len(ambiguous_links) = 11
    /\ Len(answers) = 2
    /\ Len(answers[1]) = 11
    /\ answers[1][11] = "YES"
    /\ answers[2] = <<"NO">>
    /\ added = 1..10
    /\ ambiguous_links[11][1] \notin product_urls

\* C20: the result set only grows during a crawl: once the crawl has set up
\* its result, no step takes a URL out of it, so a URL added during Classifying
\* is still there at Done.
C20_ResultGrows ==
    [][(pc # "start") => (product_urls \subseteq product_urls')]_vars

\* "/deal-item-5" was accepted for its "Add to Cart" anchor; the oracle said
\* "no" to the ambiguous anchor with the same URL; the URL is in the result
C20_Witness ==
    /\ pc = "Done"
    /\ a_tags = <<A_ambig_cart, A_ambig>>
    /\ Len(ambiguous_links) = 1
    /\ ambiguous_links[1][1] = AnchorUrl(1)
    /\ answers = << <<"NO">> >>
    /\ added = {}
    /\ AnchorUrl(1) \in product_urls

\* the k-th crawl of the run was the last one of its seed
LastOfSeed(k) ==
    \A m \in (k + 1)..Len(crawl_log) : crawl_log[m].url # crawl_log[k].url

\* C13: a render failure or an oracle failure for one seed does not abort the
\* run over a list of seeds. The crawls return in the order of the list, one
\* per seed; each has its entry in the results, holding what the crawl
\* returned; the entry of a seed whose render failed is empty, no link of a
\* batch whose oracle call failed is in its seed's entry on the oracle's word;
\* and when the run is complete every seed of the list has been crawled.
C13_FailureIsolation ==
    /\ Len(crawl_log) = app_i
    /\ app_i <= Len(category_urls)
    /\ \A k \in 1..Len(crawl_log) :
          LET o == crawl_log[k]
          IN /\ o.url = category_urls[k]
             /\ \E r \in results : r.url = o.url
             /\ LastOfSeed(k) => [url |-> o.url, links |-> o.links] \in results
             /\ o.render_failed => o.links = {}
             /\ o.links = o.direct \cup {c[2] : c \in o.confirmed}
             /\ \A c \in o.confirmed :
                   \A f \in o.failed : c[1] \notin (f + 1)..(f + batch_size)
    /\ app_pc = "complete" =>
          /\ app_i = Len(category_urls)
          /\ \A k \in 1..Len(category_urls) :
                \E r \in results : r.url = category_urls[k]

\* the render of the first seed failed and its entry is empty; the second
\* seed was crawled all the same, its oracle call failed and its entry holds
\* the directly accepted link only; the run is complete with both entries
C13_Witness ==
    /\ app_pc = "complete"
    /\ Len(category_urls) = 2
    /\ category_urls[1] # category_urls[2]
    /\ crawl_log[1].render_failed
    /\ [url |-> category_urls[1], links |-> {}] \in results
    /\ ~crawl_log[2].render_failed
    /\ crawl_log[2].failed = {0}
    /\ crawl_log[2].links # {}
    /\ crawl_log[2].links = crawl_log[2].direct
    /\ Cardinality(results) = 2

\* what crawl_category_page returns when it runs alone on the seed, with the
\* page its render returned and the verdict lists its oracle calls returned
ResultAlone(seed, page, ans) ==
    LET cu == IF seed # <<>> /\ seed[1] \in HttpPrefixed
              THEN seed ELSE <<"http:", "//">> \o seed
        n == Len(page.anchors)
        U(j) == urljoin(cu, page.anchors[j].href)
        kept == {j \in 1..n : is_internal_url(U(j), netloc(cu))}
        amb == SelectSeq([j \in 1..n |-> j],
                         LAMBDA j : j \in kept /\ IsAmbiguous(page.anchors[j]))
        yes(p) == LET b == ((p - 1) \div batch_size) + 1
                      k == ((p - 1) % batch_size) + 1
                  IN b <= Len(ans) /\ k <= Len(ans[b]) /\ ans[b][k] = "YES"
    IN {U(j) : j \in {m \in kept : IsAccept(page.anchors[m])}}
           \cup {U(amb[p]) : p \in {q \in 1..Len(amb) : yes(q)}}

\* C14: when two crawls of different seeds run in separate threads, under
\* every interleaving each crawl's result is the result it produces alone with
\* the same page and the same oracle answers, and its visited set, pending
\* list and result hold nothing of the other crawl.
C14_SeedIndependence ==
    \A t \in 1..Len(th) :
        /\ th[t].visited \subseteq {th[t].category_url}
        /\ th[t].pc \in {"Resolving", "Done"} =>
              Len(th[t].answers) <= NumBatches(Len(th[t].ambiguous_links))
        /\ th[t].pc = "Done" =>
              th[t].product_urls =
                  ResultAlone(th[t].url, th[t].content, th[t].answers)
        /\ \A u \in th[t].product_urls :
              u \in ResultAlone(th[t].url, th[t].content, th[t].answers)

\* the first crawl is done while the second is still resolving its batches;
\* each holds its own, different, non-empty result
C14_Witness ==
    /\ Len(th) = 2
    /\ th[1].pc = "Done"
    /\ th[2].pc = "Resolving"
    /\ th[1].product_urls # {}
    /\ th[2].product_urls # {}
    /\ th[1].product_urls \cap th[2].product_urls = {}
    /\ th[1].product_urls = ResultAlone(th[1].url, th[1].content, th[1].answers)

====
